---- MODULE Spec2Model ----
(***************************************************************************)
(* RM-Tools QU-fitting model files m111 (three Faraday-thin components)    *)
(* and m6 (two Burn slabs): the module-level construction of `priors`,     *)
(* the `converter` function and the `model` function of each file, and a   *)
(* driver that imports one file, draws a parameter mapping inside the      *)
(* Uniform bounds and calls the two functions.                             *)
(*                                                                         *)
(* Numbers.  fracPol values and their sums are IEEE-754 doubles, kept      *)
(* exactly: a double x in {0} \cup [2^-4, 4) is the integer x * 2^57,      *)
(* split in two limbs hi * 2^29 + lo, and every addition rounds to 53      *)
(* significant bits, ties to even.  Angles (degrees), rotation measures    *)
(* and lambda^2 values are small integers, for which double arithmetic is  *)
(* exact.  exp, sin and radians are kept symbolic: a complex value is the  *)
(* left-to-right sum of terms  amp * exp(i*(radians(psi) + arg)) *         *)
(* sin(sn) / dv, and only the identities that hold for doubles are used    *)
(* (exp(0j) = 1+0j, sin(0) = 0, 0*z = 0 and z+0 = z for finite z,          *)
(* 0/0 = NaN).                                                             *)
(***************************************************************************)
EXTENDS Integers, Sequences, FiniteSets, TLC

\* Longest lambda^2 array the driver passes.
MaxLen == 2
\* lambda^2 values are 0..MaxLam (m^2).
MaxLam == 1
\* Sampler workers calling model/converter concurrently.
NumWorkers == 2

VARIABLES
    mod,      \* the model file the driver imports: "m111" or "m6"
    ipc,      \* number of module-level `priors` statements executed so far
    priors,   \* the module-level PriorDict: key -> prior entry
    dheap,    \* dict objects: reference -> (key -> value)
    aheap,    \* numpy array objects: reference -> [dtype, exc, v]
    wk        \* one record per call slot / worker

vars == <<mod, ipc, priors, dheap, aheap, wk>>

-----------------------------------------------------------------------------
(* IEEE-754 double arithmetic on {0} \cup [2^-4, 4), in units of 2^-57.    *)

LimbBase == 2^29

FP(h, l) == [hi |-> h, lo |-> l]

FZero == FP(0, 0)

FOne == FP(2^28, 0)

\* Spacing of the doubles in the binade of x, in units of 2^-57.
FUlp(x) ==
    IF x.hi >= 2^29 THEN 64
    ELSE IF x.hi >= 2^28 THEN 32
    ELSE IF x.hi >= 2^27 THEN 16
    ELSE IF x.hi >= 2^26 THEN 8
    ELSE IF x.hi >= 2^25 THEN 4
    ELSE 2

\* Round an exact value to the nearest double, ties to even.  `sticky` says
\* that the exact value has further non-zero bits below the last unit.
FRound(x, sticky) ==
    LET u == FUlp(x)
        r == x.lo % u
        odd == ((x.lo \div u) % 2) = 1
        up == (2 * r > u) \/ (2 * r = u /\ (sticky \/ odd))
        lo2 == IF up THEN x.lo - r + u ELSE x.lo - r
    IN  IF lo2 >= LimbBase THEN FP(x.hi + 1, lo2 - LimbBase) ELSE FP(x.hi, lo2)

\* FAdd with the rounding step left out: the exact sum cut toward zero.
FAddTrunc(a, b) ==
    LET lo == a.lo + b.lo
        x == FP(a.hi + b.hi + (lo \div LimbBase), lo % LimbBase)
    IN  FP(x.hi, x.lo - (x.lo % FUlp(x)))

\* a + b on float64.
FAdd(a, b) ==
    LET lo == a.lo + b.lo
    IN  FRound(FP(a.hi + b.hi + (lo \div LimbBase), lo % LimbBase), FALSE)

\* a * b on float64, for the products the model forms: one factor is 0 or 1.
FMul(a, b) ==
    IF a = FZero \/ b = FZero THEN FZero
    ELSE IF b = FOne THEN a
    ELSE IF a = FOne THEN b
    ELSE FP(-1, -1)

\* The double nearest to n/d (a decimal literal such as 0.1 = 1/10).
FFromRatio(n, d) ==
    LET t1 == (n % d) * 2^19
        t2 == (t1 % d) * 2^19
        t3 == (t2 % d) * 2^19
        a1 == t1 \div d
        a2 == t2 \div d
        a3 == t3 \div d
        q  == FP((n \div d) * 2^28 + a1 * 2^9 + (a2 \div 2^10),
                 (a2 % 2^10) * 2^19 + a3)
    IN  FRound(q, (t3 % d) # 0)

FLeq(a, b) == a.hi < b.hi \/ (a.hi = b.hi /\ a.lo <= b.lo)

-----------------------------------------------------------------------------
(* Python dicts.                                                           *)

EmptyDict == [k \in {} |-> 0]

DictSet(d, k, v) == [x \in (DOMAIN d) \cup {k} |-> IF x = k THEN v ELSE d[x]]

-----------------------------------------------------------------------------
(* The module-level statements that build `priors`.                        *)

Mods == {"m111", "m6"}

Uniform(key, lo, hi, boundary) ==
    [key |-> key, kind |-> "Uniform", minimum |-> lo, maximum |-> hi,
     boundary |-> boundary]

Constraint(key, lo, hi) ==
    [key |-> key, kind |-> "Constraint", minimum |-> lo, maximum |-> hi,
     boundary |-> "None"]

\* PriorStmts111 with the key of the third fraction misspelt.
PriorStmts111Typo ==
    << Uniform("fracPol1", 0, 1, "None"),
       Uniform("fracPol2", 0, 1, "None"),
       Uniform("fracPol_3", 0, 1, "None"),
       Uniform("psi01_deg", 0, 180, "periodic"),
       Uniform("psi02_deg", 0, 180, "periodic"),
       Uniform("psi03_deg", 0, 180, "periodic"),
       Uniform("RM1_radm2", -1100, 1100, "None"),
       Uniform("RM2_radm2", -1100, 1100, "None"),
       Uniform("RM3_radm2", -1100, 1100, "None"),
       Constraint("delta_RM1_RM2_radm2", 0, 2200),
       Constraint("delta_RM2_RM3_radm2", 0, 2200),
       Constraint("sum_p1_p2_p3", 0, 1) >>

\* m111.py, lines 70-146, in program order.
PriorStmts111 ==
    << Uniform("fracPol1", 0, 1, "None"),
       Uniform("fracPol2", 0, 1, "None"),
       Uniform("fracPol3", 0, 1, "None"),
       Uniform("psi01_deg", 0, 180, "periodic"),
       Uniform("psi02_deg", 0, 180, "periodic"),
       Uniform("psi03_deg", 0, 180, "periodic"),
       Uniform("RM1_radm2", -1100, 1100, "None"),
       Uniform("RM2_radm2", -1100, 1100, "None"),
       Uniform("RM3_radm2", -1100, 1100, "None"),
       Constraint("delta_RM1_RM2_radm2", 0, 2200),
       Constraint("delta_RM2_RM3_radm2", 0, 2200),
       Constraint("sum_p1_p2_p3", 0, 1) >>

\* m6.py, lines 74-137, in program order.
PriorStmts6 ==
    << Uniform("fracPol1", 0, 1, "None"),
       Uniform("fracPol2", 0, 1, "None"),
       Uniform("psi01_deg", 0, 180, "periodic"),
       Uniform("psi02_deg", 0, 180, "periodic"),
       Uniform("RM1_radm2", -1100, 1100, "None"),
       Uniform("RM2_radm2", -1100, 1100, "None"),
       Uniform("deltaRM1_radm2", 0, 100, "None"),
       Uniform("deltaRM2_radm2", 0, 100, "None"),
       Constraint("delta_RM1_RM2_radm2", 0, 2200),
       Constraint("sum_p1_p2", 0, 1) >>

PriorStmts(m) == IF m = "m111" THEN PriorStmts111 ELSE PriorStmts6

\* priors = PriorDict(conversion_function=converter) is statement 1; the
\* assignments priors[key] = ... follow.
NumImportStmts(m) == 1 + Len(PriorStmts(m))

Imported == ipc = NumImportStmts(mod)

UniformKeys(p) == {k \in DOMAIN p : p[k].kind = "Uniform"}

ConstraintKeys(p) == {k \in DOMAIN p : p[k].kind = "Constraint"}

-----------------------------------------------------------------------------
(* numpy arrays.  An operation on arrays never raises on a numeric         *)
(* singularity (0/0 is NaN, with a RuntimeWarning); it raises ValueError   *)
(* when the operand shapes do not broadcast.                               *)

Arr(dtype, v) == [dtype |-> dtype, exc |-> "none", v |-> v]

ArrErr(e) == [dtype |-> "none", exc |-> e, v |-> <<>>]

\* Length of the broadcast of two 1-d shapes, -1 when they do not broadcast.
BroadcastLen(a, b) ==
    IF Len(a.v) = Len(b.v) THEN Len(a.v)
    ELSE IF Len(a.v) = 1 THEN Len(b.v)
    ELSE IF Len(b.v) = 1 THEN Len(a.v)
    ELSE -1

At(a, i) == IF Len(a.v) = 1 THEN a.v[1] ELSE a.v[i]

\* What an elementwise operation on a and b raises: "none" when it returns.
ArrExc(a, b) ==
    IF a.exc # "none" THEN a.exc
    ELSE IF b.exc # "none" THEN b.exc
    ELSE IF BroadcastLen(a, b) = -1 THEN "ValueError"
    ELSE "none"

\* np.ones_like(a)
OnesLike(a) == Arr("float64", [i \in 1..Len(a.v) |-> FOne])

-----------------------------------------------------------------------------
(* Rotation quantities.  RM, deltaRM and lambda^2 are integers; 0.5*deltaRM *)
(* is a half-integer, so a coefficient is counted in halves of rad/m^2.    *)
(* A phase is radians(deg) + half/2: deg degrees plus half/2 radians.      *)

\* x as a count of halves.
Whole(x) == 2 * x

\* 0.5 * x as a count of halves.
HalfOf(x) == x

\* np.radians(deg)
Radians(deg) == [deg |-> deg, half |-> 0]

\* phase + x, x a count of halves of a radian.
PhaseAdd(ph, x) == [deg |-> ph.deg, half |-> ph.half + x]

\* 2j * phase: the imaginary exponent, deg degrees plus rad radians.
Times2j(ph) == [deg |-> 2 * ph.deg, rad |-> ph.half]

-----------------------------------------------------------------------------
(* Complex values: st is "ok" (finite), "nan" or "inf"; ts is the sum, left *)
(* to right, of the terms amp * exp(i*(radians(psi) + arg)) * sin(sn) / dv, *)
(* sn = 0 and dv = 0 standing for no such factor.  The empty sum is 0.     *)

Term(amp, psi, arg, sn, dv) ==
    [amp |-> amp, psi |-> psi, arg |-> arg, sn |-> sn, dv |-> dv]

CxOk(ts) == [st |-> "ok", ts |-> ts]

CxNaN == [st |-> "nan", ts |-> <<>>]

CxInf == [st |-> "inf", ts |-> <<>>]

CxZero == CxOk(<<>>)

\* A term with no phase and no envelope is the real number amp (+0j).
IsNumeric(t) == t.psi = 0 /\ t.arg = 0 /\ t.sn = 0 /\ t.dv = 0

\* np.exp(e) for an imaginary exponent e; exp(0j) = 1+0j.
CxExp(e) == CxOk(<< Term(FOne, e.deg, e.rad, 0, 0) >>)

\* p * z, p a float64.
CxScale(p, z) ==
    IF z.st # "ok" THEN (IF p = FZero THEN CxNaN ELSE z)
    ELSE IF p = FZero THEN CxZero
    ELSE CxOk([i \in 1..Len(z.ts) |-> [z.ts[i] EXCEPT !.amp = FMul(p, @)]])

\* z * sin(x); sin(0) = 0.
CxMulSin(z, x) ==
    IF z.st # "ok" THEN (IF x = 0 THEN CxNaN ELSE z)
    ELSE IF x = 0 THEN CxZero
    ELSE CxOk([i \in 1..Len(z.ts) |-> [z.ts[i] EXCEPT !.sn = x]])

\* z / x, x a float64: 0/0 is NaN and z/0 is infinite, neither raises.
CxDiv(z, x) ==
    IF z.st # "ok" THEN z
    ELSE IF x = 0 THEN (IF z.ts = <<>> THEN CxNaN ELSE CxInf)
    ELSE CxOk([i \in 1..Len(z.ts) |-> [z.ts[i] EXCEPT !.dv = x]])

\* a + b.
CxAdd(a, b) ==
    IF a.st = "nan" \/ b.st = "nan" THEN CxNaN
    ELSE IF a.st = "inf" \/ b.st = "inf" THEN CxInf
    ELSE IF a.ts = <<>> THEN b
    ELSE IF b.ts = <<>> THEN a
    ELSE IF Len(a.ts) = 1 /\ Len(b.ts) = 1
            /\ IsNumeric(a.ts[1]) /\ IsNumeric(b.ts[1])
         THEN CxOk(<< Term(FAdd(a.ts[1].amp, b.ts[1].amp), 0, 0, 0, 0) >>)
    ELSE CxOk(a.ts \o b.ts)

-----------------------------------------------------------------------------
(* A call in progress: s = [id, w, dheap, aheap], id the slot, w its       *)
(* record, dheap and aheap the heaps as the call sees and leaves them.     *)
(* A slot allocates its objects at the references <<id, 1>>, <<id, 2>>...  *)
(* The record keeps, beside the frame (pc, params, lam, loc), what the     *)
(* call has done: the keys it looked up (reads), the keys it stored        *)
(* (writes), and its arguments as they were on entry (snapP, snapL).       *)

NoRef == <<0, 0>>

Idle ==
    [status |-> "idle", fn |-> "none", pc |-> 0, params |-> NoRef,
     lam |-> NoRef, loc |-> EmptyDict, ret |-> NoRef, exc |-> "none",
     nalloc |-> 0, reads |-> {}, writes |-> {}, snapP |-> EmptyDict,
     snapL |-> <<>>]

Raise(s, e) == [s EXCEPT !.w.status = "raised", !.w.exc = e]

\* name = <a new dict object holding d>
BindDict(s, name, d) ==
    LET r == <<s.id, s.w.nalloc + 1>>
    IN  [s EXCEPT !.dheap = DictSet(@, r, d),
                  !.w.loc = DictSet(@, name, r),
                  !.w.nalloc = @ + 1,
                  !.w.pc = @ + 1]

\* name = <a new array object a>, or the exception the expression raised
BindArr(s, name, a) ==
    IF a.exc # "none" THEN Raise(s, a.exc)
    ELSE LET r == <<s.id, s.w.nalloc + 1>>
         IN  [s EXCEPT !.aheap = DictSet(@, r, a),
                       !.w.loc = DictSet(@, name, r),
                       !.w.nalloc = @ + 1,
                       !.w.pc = @ + 1]

\* return name
Return(s, name) ==
    [s EXCEPT !.w.status = "returned", !.w.ret = s.w.loc[name]]

Params(s) == s.dheap[s.w.params]

LamSq(s) == s.aheap[s.w.lam]

Local(s, name) == s.aheap[s.w.loc[name]]

\* A statement that reads `keys` of the mapping: KeyError when one is missing.
Reading(s, keys, next) ==
    IF keys \subseteq DOMAIN Params(s)
    THEN [next EXCEPT !.w.reads = @ \cup keys]
    ELSE [Raise(s, "KeyError") EXCEPT !.w.reads = @ \cup keys]

-----------------------------------------------------------------------------
(* converter(parameters), m111.py lines 62-66 and m6.py lines 67-70.       *)

\* ParametersCopy without the copy: converted_parameters = parameters.
ParametersAlias(s) ==
    [s EXCEPT !.w.loc = DictSet(@, "converted_parameters", s.w.params),
              !.w.pc = @ + 1]

\* converted_parameters = parameters.copy()
ParametersCopy(s) == BindDict(s, "converted_parameters", Params(s))

\* converted_parameters[key] = v
StoreConverted(s, key, v) ==
    [s EXCEPT !.dheap[s.w.loc["converted_parameters"]] = DictSet(@, key, v),
              !.w.writes = @ \cup {key},
              !.w.pc = @ + 1]

\* DeltaRM with the operands exchanged.
DeltaRMSwapped(s, key, a, b) ==
    Reading(s, {a, b}, StoreConverted(s, key, Params(s)[b] - Params(s)[a]))

\* converted_parameters[key] = parameters[a] - parameters[b]
DeltaRM(s, key, a, b) ==
    Reading(s, {a, b}, StoreConverted(s, key, Params(s)[a] - Params(s)[b]))

\* SumP3 raising ValueError when the sum leaves the bound [0, 1].
SumP3Checked(s) ==
    Reading(s, {"fracPol1", "fracPol2", "fracPol3"},
        LET v == FAdd(FAdd(Params(s)["fracPol1"], Params(s)["fracPol2"]),
                      Params(s)["fracPol3"])
        IN  IF FLeq(v, FOne) THEN StoreConverted(s, "sum_p1_p2_p3", v)
            ELSE Raise(s, "ValueError"))

\* m111.py line 65
SumP3(s) ==
    Reading(s, {"fracPol1", "fracPol2", "fracPol3"},
        StoreConverted(s, "sum_p1_p2_p3",
            FAdd(FAdd(Params(s)["fracPol1"], Params(s)["fracPol2"]),
                 Params(s)["fracPol3"])))

\* m6.py line 69
SumP2(s) ==
    Reading(s, {"fracPol1", "fracPol2"},
        StoreConverted(s, "sum_p1_p2",
            FAdd(Params(s)["fracPol1"], Params(s)["fracPol2"])))

Converter111(s) ==
    CASE s.w.pc = 1 -> ParametersCopy(s)
      [] s.w.pc = 2 -> DeltaRM(s, "delta_RM1_RM2_radm2", "RM1_radm2", "RM2_radm2")
      [] s.w.pc = 3 -> DeltaRM(s, "delta_RM2_RM3_radm2", "RM2_radm2", "RM3_radm2")
      [] s.w.pc = 4 -> SumP3(s)
      [] OTHER      -> Return(s, "converted_parameters")

Converter6(s) ==
    CASE s.w.pc = 1 -> ParametersCopy(s)
      [] s.w.pc = 2 -> DeltaRM(s, "delta_RM1_RM2_radm2", "RM1_radm2", "RM2_radm2")
      [] s.w.pc = 3 -> SumP2(s)
      [] OTHER      -> Return(s, "converted_parameters")

-----------------------------------------------------------------------------
(* model(pDict, lamSqArr_m2), m111.py lines 29-40 and m6.py lines 31-45.   *)

\* p * a, p a float64 scalar
ScaleBy(p, a) == Arr("float64", [i \in 1..Len(a.v) |-> FMul(p, a.v[i])])

\* pArr = pDict[key] * np.ones_like(lamSqArr_m2)
PArr(s, name, key) ==
    Reading(s, {key}, BindArr(s, name, ScaleBy(Params(s)[key], OnesLike(LamSq(s)))))

\* np.exp(2j * (np.radians(psi) + coef * lamSqArr_m2)), coef in halves
ExpPhase(psi, coef, lam) ==
    Arr("complex128",
        [i \in 1..Len(lam.v) |->
            CxExp(Times2j(PhaseAdd(Radians(psi), coef * lam.v[i])))])

\* pArr * <complex array>
TimesP(pArr, zArr) ==
    IF ArrExc(pArr, zArr) # "none" THEN ArrErr(ArrExc(pArr, zArr))
    ELSE Arr("complex128", [i \in 1..BroadcastLen(pArr, zArr) |->
                               CxScale(At(pArr, i), At(zArr, i))])

\* m111: quArr_k = pArr_k * np.exp(2j * (np.radians(psi0k) + RMk * lamSqArr_m2))
QuThin(s, name, pName, psiKey, rmKey) ==
    Reading(s, {psiKey, rmKey},
        BindArr(s, name,
            TimesP(Local(s, pName),
                   ExpPhase(Params(s)[psiKey], Whole(Params(s)[rmKey]), LamSq(s)))))

\* m6: quArr_k = pArr_k * np.exp(2j * (np.radians(psi0k) +
\*               (0.5 * deltaRMk + RMk) * lamSqArr_m2))
QuSlab(s, name, pName, psiKey, dKey, rmKey) ==
    Reading(s, {psiKey, dKey, rmKey},
        BindArr(s, name,
            TimesP(Local(s, pName),
                   ExpPhase(Params(s)[psiKey],
                            HalfOf(Params(s)[dKey]) + Whole(Params(s)[rmKey]),
                            LamSq(s)))))

\* ArrAdd reading the second operand at its first element only.
ArrAddFirst(a, b) ==
    IF ArrExc(a, b) # "none" THEN ArrErr(ArrExc(a, b))
    ELSE Arr("complex128", [i \in 1..Len(a.v) |-> CxAdd(a.v[i], b.v[1])])

\* a + b on complex arrays
ArrAdd(a, b) ==
    IF ArrExc(a, b) # "none" THEN ArrErr(ArrExc(a, b))
    ELSE Arr("complex128", [i \in 1..BroadcastLen(a, b) |->
                               CxAdd(At(a, i), At(b, i))])

\* m111.py line 38: quArr = (quArr1 + quArr2 + quArr3)
SumThin(q1, q2, q3) == ArrAdd(ArrAdd(q1, q2), q3)

\* Sinc with the limit sin(x)/x = 1 taken at x = 0.
SincLimit(z, x) == IF x = 0 THEN z ELSE CxDiv(CxMulSin(z, x), x)

\* z * np.sin(x) / x at one channel
Sinc(z, x) == CxDiv(CxMulSin(z, x), x)

\* quArr_k * np.sin(deltaRMk * lamSqArr_m2) / (deltaRMk * lamSqArr_m2)
Damped(q, d, lam) ==
    IF ArrExc(q, lam) # "none" THEN ArrErr(ArrExc(q, lam))
    ELSE Arr("complex128", [i \in 1..BroadcastLen(q, lam) |->
                               Sinc(At(q, i), d * At(lam, i))])

\* m6.py lines 40-43
SumSlab(s, name) ==
    Reading(s, {"deltaRM1_radm2", "deltaRM2_radm2"},
        BindArr(s, name,
            ArrAdd(Damped(Local(s, "quArr1"), Params(s)["deltaRM1_radm2"], LamSq(s)),
                   Damped(Local(s, "quArr2"), Params(s)["deltaRM2_radm2"], LamSq(s)))))

\* Model111 with quArr2 built from pArr1.
Model111CopyPaste(s) ==
    CASE s.w.pc = 1 -> PArr(s, "pArr1", "fracPol1")
      [] s.w.pc = 2 -> PArr(s, "pArr2", "fracPol2")
      [] s.w.pc = 3 -> PArr(s, "pArr3", "fracPol3")
      [] s.w.pc = 4 -> QuThin(s, "quArr1", "pArr1", "psi01_deg", "RM1_radm2")
      [] s.w.pc = 5 -> QuThin(s, "quArr2", "pArr1", "psi02_deg", "RM2_radm2")
      [] s.w.pc = 6 -> QuThin(s, "quArr3", "pArr3", "psi03_deg", "RM3_radm2")
      [] s.w.pc = 7 -> BindArr(s, "quArr", SumThin(Local(s, "quArr1"),
                                   Local(s, "quArr2"), Local(s, "quArr3")))
      [] OTHER      -> Return(s, "quArr")

Model111(s) ==
    CASE s.w.pc = 1 -> PArr(s, "pArr1", "fracPol1")
      [] s.w.pc = 2 -> PArr(s, "pArr2", "fracPol2")
      [] s.w.pc = 3 -> PArr(s, "pArr3", "fracPol3")
      [] s.w.pc = 4 -> QuThin(s, "quArr1", "pArr1", "psi01_deg", "RM1_radm2")
      [] s.w.pc = 5 -> QuThin(s, "quArr2", "pArr2", "psi02_deg", "RM2_radm2")
      [] s.w.pc = 6 -> QuThin(s, "quArr3", "pArr3", "psi03_deg", "RM3_radm2")
      [] s.w.pc = 7 -> BindArr(s, "quArr", SumThin(Local(s, "quArr1"),
                                   Local(s, "quArr2"), Local(s, "quArr3")))
      [] OTHER      -> Return(s, "quArr")

Model6(s) ==
    CASE s.w.pc = 1 -> PArr(s, "pArr1", "fracPol1")
      [] s.w.pc = 2 -> PArr(s, "pArr2", "fracPol2")
      [] s.w.pc = 3 -> QuSlab(s, "quArr1", "pArr1", "psi01_deg",
                              "deltaRM1_radm2", "RM1_radm2")
      [] s.w.pc = 4 -> QuSlab(s, "quArr2", "pArr2", "psi02_deg",
                              "deltaRM2_radm2", "RM2_radm2")
      [] s.w.pc = 5 -> SumSlab(s, "quArr")
      [] OTHER      -> Return(s, "quArr")

\* One statement of the running call.
Step(m, s) ==
    IF s.w.fn = "converter"
    THEN (IF m = "m111" THEN Converter111(s) ELSE Converter6(s))
    ELSE (IF m = "m111" THEN Model111(s) ELSE Model6(s))

\* The call run to its return or its exception.
RECURSIVE RunCall(_, _)
RunCall(m, s) == IF s.w.status # "running" THEN s ELSE RunCall(m, Step(m, s))

\* fn(params, lam) entered by slot id.
Enter(id, fn, params, lam, dh, ah) ==
    [id |-> id, dheap |-> dh, aheap |-> ah,
     w |-> [Idle EXCEPT !.status = "running", !.fn = fn, !.pc = 1,
                        !.params = params, !.lam = lam,
                        !.snapP = dh[params],
                        !.snapL = IF lam = NoRef THEN <<>> ELSE ah[lam].v]]

-----------------------------------------------------------------------------
(* The driver: it imports the model file, draws one parameter mapping with *)
(* every Uniform entry of `priors` inside its bounds, owns the lambda^2    *)
(* array, and calls converter and model.                                   *)

TenthsOf(S) == {FFromRatio(k, 10) : k \in S}

\* Sample values per parameter family, for each specification.
GridsModel ==
    [frac |-> TenthsOf({0, 1, 2}), psi |-> {0, 90}, rm |-> {0, 1100},
     drm |-> {0, 50}]

GridsConv ==
    [frac |-> TenthsOf({0, 1, 2, 5, 10}), psi |-> {0},
     rm |-> {-1100, 0, 1100}, drm |-> {0}]

GridsConc ==
    [frac |-> TenthsOf({5}), psi |-> {0}, rm |-> {0, 1100}, drm |-> {50}]

\* The sample values of a Uniform entry e: those of its family inside
\* [e.minimum, e.maximum].
GridOf(e, G) ==
    IF e.maximum = 1
    THEN {v \in G.frac : FLeq(FP(e.minimum * 2^28, 0), v)
                         /\ FLeq(v, FP(e.maximum * 2^28, 0))}
    ELSE {v \in (IF e.maximum = 180 THEN G.psi
                 ELSE IF e.maximum = 100 THEN G.drm ELSE G.rm) :
            e.minimum <= v /\ v <= e.maximum}

\* Every mapping of the keys K to sample values of their entries in p.
RECURSIVE Draws(_, _, _)
Draws(p, K, G) ==
    IF K = {} THEN {EmptyDict}
    ELSE LET k == CHOOSE x \in K : TRUE
         IN  {DictSet(d, k, v) : d \in Draws(p, K \ {k}, G), v \in GridOf(p[k], G)}

\* The lambda^2 arrays: 1..MaxLen channels, each 0..MaxLam.
RECURSIVE SeqsUpTo(_, _)
SeqsUpTo(S, n) ==
    IF n = 0 THEN {<<>>}
    ELSE LET T == SeqsUpTo(S, n - 1)
         IN  T \cup {Append(t, x) : t \in {u \in T : Len(u) = n - 1}, x \in S}

LamArrays == SeqsUpTo(0..MaxLam, MaxLen) \ {<<>>}

InputP == <<0, 1>>

InputL == <<0, 2>>

Sampled == InputP \in DOMAIN dheap

Slots == 1..NumWorkers

Init ==
    /\ mod \in Mods
    /\ ipc = 0
    /\ priors = EmptyDict
    /\ dheap = EmptyDict
    /\ aheap = EmptyDict
    /\ wk = [w \in Slots |-> Idle]

\* One module-level statement of the imported file.
ImportStep ==
    /\ ipc < NumImportStmts(mod)
    /\ ipc' = ipc + 1
    /\ priors' = IF ipc = 0 THEN EmptyDict
                 ELSE LET e == PriorStmts(mod)[ipc] IN DictSet(priors, e.key, e)
    /\ UNCHANGED <<mod, dheap, aheap, wk>>

\* The driver draws the parameter mapping and fixes the lambda^2 array.
Sample(G, L) ==
    /\ Imported
    /\ ~Sampled
    /\ \E d \in Draws(priors, UniformKeys(priors), G), l \in L :
          /\ dheap' = DictSet(dheap, InputP, d)
          /\ aheap' = DictSet(aheap, InputL, Arr("float64", l))
    /\ UNCHANGED <<mod, ipc, priors, wk>>

\* Slot w calls fn and the call runs to its end.
Call(w, fn, params, lam) ==
    /\ Sampled
    /\ wk[w].status = "idle"
    /\ LET r == RunCall(mod, Enter(w, fn, params, lam, dheap, aheap))
       IN  /\ wk' = [wk EXCEPT ![w] = r.w]
           /\ dheap' = r.dheap
           /\ aheap' = r.aheap
    /\ UNCHANGED <<mod, ipc, priors>>

SampleModel == Sample(GridsModel, LamArrays)

CallModel == Call(1, "model", InputP, InputL)

SampleConv == Sample(GridsConv, {<<0>>})

CallConverter == Call(1, "converter", InputP, NoRef)

\* A second call of converter, on the same mapping or on the first result.
CallConverterAgain ==
    /\ wk[1].status = "returned"
    /\ \E p \in {InputP, wk[1].ret} : Call(2, "converter", p, NoRef)

SampleConc == Sample(GridsConc, {<<0, 1>>})

\* Worker w enters fn on the shared inputs.
Begin(w) ==
    /\ Sampled
    /\ wk[w].status = "idle"
    /\ \E fn \in {"model", "converter"} :
          wk' = [wk EXCEPT ![w] =
                    Enter(w, fn, InputP, IF fn = "model" THEN InputL ELSE NoRef,
                          dheap, aheap).w]
    /\ UNCHANGED <<mod, ipc, priors, dheap, aheap>>

\* Worker w executes its next statement.
Advance(w) ==
    /\ wk[w].status = "running"
    /\ LET r == Step(mod, [id |-> w, w |-> wk[w], dheap |-> dheap, aheap |-> aheap])
       IN  /\ wk' = [wk EXCEPT ![w] = r.w]
           /\ dheap' = r.dheap
           /\ aheap' = r.aheap
    /\ UNCHANGED <<mod, ipc, priors>>

NextModel == ImportStep \/ SampleModel \/ CallModel

NextConv == ImportStep \/ SampleConv \/ CallConverter \/ CallConverterAgain

NextConc == ImportStep \/ SampleConc \/ (\E w \in Slots : Begin(w))
            \/ (\E w \in Slots : Advance(w))

\* model() on a drawn mapping and a lambda^2 array.
Spec == Init /\ [][NextModel]_vars

\* converter() on a drawn mapping, called once and again.
SpecConv == Init /\ [][NextConv]_vars

\* model() and converter() called by NumWorkers workers, statement by statement.
SpecConc == Init /\ [][NextConc]_vars

-----------------------------------------------------------------------------
(* Properties.                                                             *)

Returned(w, fn) == wk[w].status = "returned" /\ wk[w].fn = fn

\* The mapping converter returned to slot w, and the array model returned.
RetDict(w) == dheap[wk[w].ret]

RetArr(w) == aheap[wk[w].ret]

\* v inside the bounds a prior entry declares, for a float64 and an integer.
FInBounds(e, v) ==
    FLeq(FP(e.minimum * 2^28, 0), v) /\ FLeq(v, FP(e.maximum * 2^28, 0))

InBounds(e, v) == e.minimum <= v /\ v <= e.maximum

\* C1: once the file is imported, every key a call of model or converter
\* looks up is a Uniform entry of priors (no lookup fails on a draw of the
\* Uniform entries), and every Constraint entry of priors is a key the
\* returned converter call has stored.
C1_PriorsConsistent ==
    \A w \in Slots :
        /\ wk[w].reads \subseteq UniformKeys(priors)
        /\ wk[w].exc # "KeyError"
        /\ Returned(w, "converter") => ConstraintKeys(priors) \subseteq wk[w].writes

C1_Witness ==
    /\ Returned(1, "model") /\ Returned(2, "converter")
    /\ wk[1].reads # {} /\ wk[2].writes # {}

SumKey == IF mod = "m111" THEN "sum_p1_p2_p3" ELSE "sum_p1_p2"

\* fracPol1 + fracPol2 (+ fracPol3) of the mapping p, left to right.
SumOfFractions(p) ==
    IF mod = "m111"
    THEN FAdd(FAdd(p["fracPol1"], p["fracPol2"]), p["fracPol3"])
    ELSE FAdd(p["fracPol1"], p["fracPol2"])

\* C2: converter never raises; the sum key of its result is the float64 sum
\* of the fractions, and that value is outside the Constraint bounds [0, 1]
\* exactly when it exceeds 1 (so a sum of 1.5 is outside).
C2_SumConstraint ==
    \A w \in Slots :
        /\ wk[w].status # "raised"
        /\ Returned(w, "converter") =>
              LET v == RetDict(w)[SumKey]
              IN  /\ v = SumOfFractions(wk[w].snapP)
                  /\ ~FInBounds(priors[SumKey], v) <=> ~FLeq(v, FOne)
                  /\ v = FFromRatio(3, 2) => ~FInBounds(priors[SumKey], v)

C2_Witness ==
    /\ mod = "m111" /\ Returned(1, "converter")
    /\ RetDict(1)["sum_p1_p2_p3"] = FFromRatio(3, 2)
    /\ \A k \in {"fracPol1", "fracPol2", "fracPol3"} :
          wk[1].snapP[k] = FFromRatio(1, 2)

\* C3: delta_RM1_RM2_radm2 is inside its bounds [0, 2200] exactly when
\* RM1 >= RM2, and for m111 delta_RM2_RM3_radm2 exactly when RM2 >= RM3; the
\* upper bound never binds.
C3_RMOrdering ==
    \A w \in Slots :
        Returned(w, "converter") =>
            LET p == wk[w].snapP
                r == RetDict(w)
            IN  /\ r["delta_RM1_RM2_radm2"] = p["RM1_radm2"] - p["RM2_radm2"]
                /\ r["delta_RM1_RM2_radm2"] <= priors["delta_RM1_RM2_radm2"].maximum
                /\ InBounds(priors["delta_RM1_RM2_radm2"], r["delta_RM1_RM2_radm2"])
                      <=> p["RM1_radm2"] >= p["RM2_radm2"]
                /\ mod = "m111" =>
                      /\ r["delta_RM2_RM3_radm2"] = p["RM2_radm2"] - p["RM3_radm2"]
                      /\ r["delta_RM2_RM3_radm2"] <= priors["delta_RM2_RM3_radm2"].maximum
                      /\ InBounds(priors["delta_RM2_RM3_radm2"], r["delta_RM2_RM3_radm2"])
                            <=> p["RM2_radm2"] >= p["RM3_radm2"]
                      /\ (\A k \in {"delta_RM1_RM2_radm2", "delta_RM2_RM3_radm2"} :
                             InBounds(priors[k], r[k]))
                            <=> (p["RM1_radm2"] >= p["RM2_radm2"]
                                 /\ p["RM2_radm2"] >= p["RM3_radm2"])

C3_Witness ==
    /\ mod = "m111" /\ Returned(1, "converter")
    /\ RetDict(1)["delta_RM1_RM2_radm2"] = 2200
    /\ RetDict(1)["delta_RM2_RM3_radm2"] < 0

SameDict(a, b) == DOMAIN a = DOMAIN b /\ \A k \in DOMAIN a : a[k] = b[k]

\* C4: a second call of converter on the same mapping returns the values of
\* the first, a call on the first result returns a mapping equal to it, and
\* every call keeps each key of its argument and leaves the argument as it
\* was.
C4_ConverterIdempotent ==
    /\ Returned(1, "converter") /\ Returned(2, "converter")
          => SameDict(RetDict(2), RetDict(1))
    /\ \A w \in Slots :
          Returned(w, "converter") =>
              /\ SameDict(dheap[wk[w].params], wk[w].snapP)
              /\ DOMAIN wk[w].snapP \subseteq DOMAIN RetDict(w)
              /\ \A k \in DOMAIN wk[w].snapP : RetDict(w)[k] = wk[w].snapP[k]

C4_Witness ==
    /\ Returned(1, "converter") /\ Returned(2, "converter")
    /\ wk[2].params = wk[1].ret
    /\ wk[1].ret # InputP


\* The call of slot w run alone on its arguments as they were on entry, up
\* to the statement the slot is at.
RECURSIVE RunUntil(_, _, _)
RunUntil(m, s, pc) ==
    IF s.w.status # "running" \/ s.w.pc = pc THEN s ELSE RunUntil(m, Step(m, s), pc)

ArgHeapP(w) == DictSet(EmptyDict, wk[w].params, wk[w].snapP)

ArgHeapL(w) ==
    IF wk[w].lam = NoRef THEN EmptyDict
    ELSE DictSet(EmptyDict, wk[w].lam, Arr("float64", wk[w].snapL))

Alone(w) ==
    RunUntil(mod, Enter(w, wk[w].fn, wk[w].params, wk[w].lam, ArgHeapP(w), ArgHeapL(w)),
             IF wk[w].status = "running" THEN wk[w].pc ELSE 0)

\* priors as the module-level statements leave it.
ImportedPriors(m) ==
    [k \in {PriorStmts(m)[i].key : i \in 1..Len(PriorStmts(m))} |->
        PriorStmts(m)[CHOOSE i \in 1..Len(PriorStmts(m)) : PriorStmts(m)[i].key = k]]

\* C5: under every interleaving of the workers' statements, priors stays as
\* the import left it, each call's arguments stay as they were on entry,
\* the frame and every object of a call are at each point those of the same
\* call run alone, and the returned object is one the call allocated.
C5_NoInterference ==
    /\ Imported => priors = ImportedPriors(mod)
    /\ \A w \in Slots :
          wk[w].status # "idle" =>
              LET a == Alone(w)
              IN  /\ SameDict(dheap[wk[w].params], wk[w].snapP)
                  /\ wk[w].lam # NoRef => aheap[wk[w].lam].v = wk[w].snapL
                  /\ wk[w] = a.w
                  /\ \A r \in DOMAIN a.dheap :
                        r[1] = w => r \in DOMAIN dheap /\ SameDict(dheap[r], a.dheap[r])
                  /\ \A r \in DOMAIN a.aheap :
                        r[1] = w => r \in DOMAIN aheap /\ aheap[r] = a.aheap[r]
                  /\ wk[w].status = "returned" =>
                        /\ wk[w].ret[1] = w
                        /\ wk[w].ret \notin {wk[w].params, wk[w].lam}

C5_Witness ==
    /\ Returned(1, "converter")
    /\ wk[2].fn = "model" /\ wk[2].status = "running" /\ wk[2].pc = 4
    /\ wk[1].params = wk[2].params

\* fracPol * exp(2i * (radians(psi0) + RM * lambda^2)) at one channel.
ThinSource(p, psi, rm, l) ==
    CxScale(p, CxExp(Times2j(PhaseAdd(Radians(psi), Whole(rm) * l))))

\* C6: for m111 with fracPol2 = fracPol3 = 0 the output at each channel is
\* the thin-source value of component 1.
C6_SingleComponent ==
    (mod = "m111" /\ Returned(1, "model")
       /\ wk[1].snapP["fracPol2"] = FZero /\ wk[1].snapP["fracPol3"] = FZero)
    => LET p == wk[1].snapP
       IN  /\ Len(RetArr(1).v) = Len(wk[1].snapL)
           /\ \A i \in 1..Len(wk[1].snapL) :
                 RetArr(1).v[i] = ThinSource(p["fracPol1"], p["psi01_deg"],
                                             p["RM1_radm2"], wk[1].snapL[i])

C6_Witness ==
    /\ mod = "m111" /\ Returned(1, "model")
    /\ wk[1].snapP["fracPol2"] = FZero /\ wk[1].snapP["fracPol3"] = FZero
    /\ wk[1].snapP["fracPol1"] = FFromRatio(2, 10)
    /\ wk[1].snapP["psi02_deg"] = 90 /\ wk[1].snapP["RM3_radm2"] = 1100
    /\ wk[1].snapP["RM1_radm2"] = 1100
    /\ wk[1].snapL = <<0, 1>>

\* The real number x as a complex value (x + 0j).
CxReal(x) == IF x = FZero THEN CxZero ELSE CxOk(<< Term(x, 0, 0, 0, 0) >>)

\* The scenario of C7: fracPol = (0.1, 0.2, 0.0), psi0 = 0, RM = 0, lambda^2 = [0].
C7_Scenario ==
    /\ mod = "m111" /\ Returned(1, "model")
    /\ wk[1].snapP["fracPol1"] = FFromRatio(1, 10)
    /\ wk[1].snapP["fracPol2"] = FFromRatio(2, 10)
    /\ wk[1].snapP["fracPol3"] = FZero
    /\ \A k \in {"psi01_deg", "psi02_deg", "psi03_deg",
                 "RM1_radm2", "RM2_radm2", "RM3_radm2"} : wk[1].snapP[k] = 0
    /\ wk[1].snapL = <<0>>

\* C7 as stated: in the scenario model returns [0.3 + 0i].
C7_Original ==
    C7_Scenario => RetArr(1).v = << CxReal(FFromRatio(3, 10)) >>

\* The double next above x.
FNextUp(x) == FRound(FP(x.hi, x.lo + FUlp(x)), FALSE)

\* C7, amended: in the scenario model returns the one-element sequence
\* [(0.1 + 0.2) + 0.0] = [0.30000000000000004 + 0i], the double next above
\* 0.3; and at every channel where each phase psi0k + RMk * lambda^2 is
\* zero the output is the float64 sum (fracPol1 + fracPol2) + fracPol3 with
\* zero imaginary part.
C7_ZeroPhaseSum ==
    /\ C7_Scenario => RetArr(1).v = << CxReal(FNextUp(FFromRatio(3, 10))) >>
    /\ (mod = "m111" /\ Returned(1, "model")) =>
          LET p == wk[1].snapP
          IN  \A i \in 1..Len(wk[1].snapL) :
                 (/\ p["psi01_deg"] = 0 /\ p["RM1_radm2"] * wk[1].snapL[i] = 0
                  /\ p["psi02_deg"] = 0 /\ p["RM2_radm2"] * wk[1].snapL[i] = 0
                  /\ p["psi03_deg"] = 0 /\ p["RM3_radm2"] * wk[1].snapL[i] = 0)
                 => RetArr(1).v[i] =
                       CxReal(FAdd(FAdd(p["fracPol1"], p["fracPol2"]), p["fracPol3"]))

C7_Witness == C7_Scenario /\ Len(RetArr(1).v) = 1

\* model run on the single channel l with the mapping slot 1 was given.
OneChannel(l) ==
    LET a == RunCall(mod, Enter(1, "model", InputP, InputL, ArgHeapP(1),
                                DictSet(EmptyDict, InputL, Arr("float64", <<l>>))))
    IN  a.aheap[a.w.ret].v[1]

\* C9: on a draw of the Uniform entries and a non-empty lambda^2 array of N
\* channels model returns N values, the i-th being what model returns for
\* the i-th lambda^2 value alone.
C9_LengthAndPointwise ==
    /\ wk[1].status # "raised"
    /\ Returned(1, "model") =>
          /\ Len(RetArr(1).v) = Len(wk[1].snapL)
          /\ \A i \in 1..Len(wk[1].snapL) : RetArr(1).v[i] = OneChannel(wk[1].snapL[i])

C9_Witness ==
    /\ Returned(1, "model")
    /\ Len(RetArr(1).v) = MaxLen
    /\ \E i, j \in 1..Len(RetArr(1).v) : RetArr(1).v[i] # RetArr(1).v[j]

\* C10: m6's model never raises; a channel where deltaRM1 * lambda^2 = 0 or
\* deltaRM2 * lambda^2 = 0 is NaN whatever the other parameters are, and
\* every other channel has a defined value.
C10_SincNaN ==
    mod = "m6" =>
        /\ wk[1].status # "raised"
        /\ Returned(1, "model") =>
              LET p == wk[1].snapP
              IN  \A i \in 1..Len(wk[1].snapL) :
                     IF p["deltaRM1_radm2"] * wk[1].snapL[i] = 0
                        \/ p["deltaRM2_radm2"] * wk[1].snapL[i] = 0
                     THEN RetArr(1).v[i].st = "nan"
                     ELSE RetArr(1).v[i].st = "ok"

C10_Witness ==
    /\ mod = "m6" /\ Returned(1, "model")
    /\ wk[1].snapP["fracPol1"] = FZero /\ wk[1].snapP["fracPol2"] = FZero
    /\ wk[1].snapP["deltaRM1_radm2"] = 50 /\ wk[1].snapP["deltaRM2_radm2"] = 50
    /\ wk[1].snapL = <<0, 1>>
    /\ RetArr(1).v[1].st = "nan" /\ RetArr(1).v[2].st = "ok"

====
